---- MODULE Spec2Model ----
(***************************************************************************)
(* Model of the civic-connect service (src/main.py, src/models.py,         *)
(* src/database.py): the four tables, the bearer tokens, and one action    *)
(* per HTTP handler.  Handlers that read a table and later insert into it  *)
(* (register_user, submit_feedback) are split at the commit, so that       *)
(* requests served by different workers over the shared database           *)
(* interleave between the lookup and the insert.                           *)
(*                                                                         *)
(* Strings that the code inspects (emails, filenames) are sequences of     *)
(* one-character strings.  Time is counted in minutes.                     *)
(***************************************************************************)
EXTENDS Integers, Sequences, FiniteSets, Bags, TLC

\* ------------------------------------------------------------------ bounds
MaxUsers == 2
MaxReports == 2
MaxInflight == 2
MaxClock == 60
ClockStep == 60

\* ------------------------------------------------------- program constants
ACCESS_TOKEN_EXPIRE_MINUTES == 60

ADMIN_EMAIL == <<"a", "d">>

ADMIN_PASSWORD == "D"

\* models.UserRole, models.ReportStatus
UserRole == {"user", "admin"}

ReportStatus == {"pending", "resolved"}

\* Python's None for an absent claim
None == <<>>

\* ------------------------------------------------------------------ inputs
Emails == {<<"a", "d">>, <<"A", "d">>, <<"u">>, <<"U">>}

\* passwords offered at registration, and at login (ADMIN_PASSWORD is the wrong
\* password for a registered user, "p" the wrong one for the admin)
Passwords == {"p"}

LoginPasswords == {"p", "D"}

UserTypes == {"user", "admin"}

Filenames == {<<".", ".", "f">>, <<"f">>}
\* the bytes of an uploaded file
Bodies == {"b1"}
\* the wider inputs of the upload study: names that sanitize differently, one of
\* them shaped like a timestamp prefix, and two different files
UploadFilenames == Filenames \cup {<<".", ".", ".", "f">>, <<"0", "_", "f">>}
UploadBodies == {"b1", "b2"}

Ratings == {5}

Malformed == [sub |-> None, role |-> "none", exp |-> 0, signed |-> FALSE, wellformed |-> FALSE]

\* Tokens a client may present: a string that is no JWT, a JWT signed with
\* another key, and JWTs signed with SECRET_KEY: with or without a subject,
\* issued at time 0 (exp = 60) or an hour earlier (exp = 0).
Tokens ==
    {Malformed}
    \cup {[sub |-> ADMIN_EMAIL, role |-> "admin", exp |-> MaxClock + ACCESS_TOKEN_EXPIRE_MINUTES,
           signed |-> FALSE, wellformed |-> TRUE]}
    \cup [sub : {ADMIN_EMAIL, <<"u">>}, role : UserRole,
          exp : {ACCESS_TOKEN_EXPIRE_MINUTES}, signed : {TRUE}, wellformed : {TRUE}]
    \cup [sub : {None, <<"U">>}, role : {"user"},
          exp : {ACCESS_TOKEN_EXPIRE_MINUTES}, signed : {TRUE}, wellformed : {TRUE}]
    \cup [sub : {ADMIN_EMAIL, <<"u">>}, role : {"user"},
          exp : {0}, signed : {TRUE}, wellformed : {TRUE}]

\* ------------------------------------------------------------------- state
VARIABLES
    users,        \* table users: row id = index
    communities,  \* table communities: the set of ids
    reports,      \* table reports: row id = index
    feedback,     \* table feedback: row id = index
    uploads,      \* the files under uploads/: name |-> bytes last written
    clock,        \* the wall clock, minutes
    inflight,     \* bag of requests that passed their checks and have not committed
    resp          \* the last response sent

vars == <<users, communities, reports, feedback, uploads, clock, inflight, resp>>

tables == <<users, communities, reports, feedback>>

\* A response: the handler, the HTTP status, the message, and for /token the
\* access_token, for the report routes the ids of the reports returned
Response(op, code, detail) ==
    [op |-> op, code |-> code, detail |-> detail, token |-> {}, list |-> <<>>]

credentials_exception(op) == Response(op, 401, "Could not validate credentials")

\* A request between its checks and its commit: the handler's local variables
RegisterRequest(email, password) ==
    [op |-> "register", email |-> email, password |-> password,
     report_id |-> 0, owner_id |-> 0, rating |-> 0]

FeedbackRequest(report_id, owner_id, rating) ==
    [op |-> "feedback", email |-> None, password |-> "",
     report_id |-> report_id, owner_id |-> owner_id, rating |-> rating]

\* ------------------------------------------------------------ pure helpers
\* str.lower(), character by character
LowerChar(c) ==
    CASE c = "A" -> "a"
      [] c = "D" -> "d"
      [] c = "U" -> "u"
      [] c = "F" -> "f"
      [] OTHER -> c

Lower(s) == [i \in DOMAIN s |-> LowerChar(s[i])]

\* passlib bcrypt: a one-way hash; verify re-hashes and compares
get_password_hash(password) == <<"bcrypt", password>>

verify_password(plain_password, hashed_password) ==
    get_password_hash(plain_password) = hashed_password

\* mutant of create_access_token: the expiry delta is not added
create_access_token_no_delta(data, now) ==
    [sub |-> data.sub, role |-> data.role, exp |-> now, signed |-> TRUE, wellformed |-> TRUE]

\* create_access_token: the claims plus exp = now + 60 minutes, signed with SECRET_KEY
create_access_token(data, now) ==
    [sub |-> data.sub, role |-> data.role, exp |-> now + ACCESS_TOKEN_EXPIRE_MINUTES,
     signed |-> TRUE, wellformed |-> TRUE]

\* jwt.decode(token, SECRET_KEY, algorithms=[ALGORITHM]): TRUE when it returns
\* the payload, FALSE when it raises JWTError.  python-jose rejects the exp
\* claim only when exp < now.
jwt_decode_ok(token, now) ==
    /\ token.wellformed
    /\ token.signed
    /\ ~(token.exp < now)

\* get_user_by_email: the id of the row with this exact email, 0 for None
get_user_by_email(tbl, email) ==
    IF \E i \in DOMAIN tbl : tbl[i].email = email
    THEN CHOOSE i \in DOMAIN tbl : tbl[i].email = email
    ELSE 0

\* get_current_user: the id of the authenticated user, 0 when it raises 401
get_current_user(token, tbl, now) ==
    IF ~jwt_decode_ok(token, now) THEN 0
    ELSE IF token.sub = None THEN 0
    ELSE get_user_by_email(tbl, token.sub)

\* file.filename.replace('..', ''): non-overlapping occurrences, left to right
RECURSIVE StripDotDot(_)
StripDotDot(s) ==
    IF Len(s) < 2 THEN s
    ELSE IF s[1] = "." /\ s[2] = "." THEN StripDotDot(SubSeq(s, 3, Len(s)))
    ELSE <<s[1]>> \o StripDotDot(Tail(s))

\* str(n) for a natural number n
Digit(d) == <<"0", "1", "2", "3", "4", "5", "6", "7", "8", "9">>[d + 1]

RECURSIVE Decimal(_)
Decimal(n) ==
    IF n < 10 THEN <<Digit(n)>> ELSE Decimal(n \div 10) \o <<Digit(n % 10)>>

\* int(datetime.now().timestamp()): the clock counts minutes, the name seconds
timestamp_seconds(now) == now * 60

\* mutant of safe_filename: the timestamp prefix is left out
safe_filename_no_timestamp(now, filename) == StripDotDot(filename)

\* f"{int(datetime.now().timestamp())}_{file.filename.replace('..', '')}"
safe_filename(now, filename) ==
    Decimal(timestamp_seconds(now)) \o <<"_">> \o StripDotDot(filename)

\* the ids of the rows of reports that the query's filter selects
AllReports(tbl) == DOMAIN tbl

\* mutant of ReportsOwnedBy: the owner filter is dropped
ReportsOwnedBy_unfiltered(tbl, uid) == DOMAIN tbl

ReportsOwnedBy(tbl, uid) == {r \in DOMAIN tbl : tbl[r].owner_id = uid}

\* ORDER BY timestamp DESC: the selected rows in an order the database may
\* return, rows with equal timestamps in either order
OrderByTimestampDesc(tbl, ids) ==
    {s \in [1..Cardinality(ids) -> ids] :
        /\ \A i, j \in DOMAIN s : i # j => s[i] # s[j]
        /\ \A i, j \in DOMAIN s : i < j => tbl[s[i]].timestamp >= tbl[s[j]].timestamp}

\* Feedback.report_id lookup: is there a row for this report
HasFeedback(tbl, report_id) == \E f \in DOMAIN tbl : tbl[f].report_id = report_id

\* ------------------------------------------------------------------- Init
Init ==
    /\ users = <<>>
    /\ communities = {}
    /\ reports = <<>>
    /\ feedback = <<>>
    /\ uploads = <<>>
    /\ clock = 0
    /\ inflight = EmptyBag
    /\ resp = Response("none", 0, "")

\* ------------------------------------------------ handlers: what they compute
\* Each handler's outcome in the current state: its response and the new
\* value of what it writes.

\* mutant of create_super_user_result: the admin lookup is skipped
create_super_user_result_unguarded(tbl, comms) ==
    [communities |-> comms \cup {1},
     users |-> Append(tbl,
                  [email |-> ADMIN_EMAIL,
                   hashed_password |-> get_password_hash(ADMIN_PASSWORD),
                   role |-> "admin", community_id |-> 1])]

\* startup event on the tables tbl (users) and comms (communities): when no
\* row has the admin email, community 1 is ensured and the admin row is added
create_super_user_result(tbl, comms) ==
    IF get_user_by_email(tbl, ADMIN_EMAIL) = 0
    THEN [communities |-> comms \cup {1},
          users |-> Append(tbl,
                       [email |-> ADMIN_EMAIL,
                        hashed_password |-> get_password_hash(ADMIN_PASSWORD),
                        role |-> "admin", community_id |-> 1])]
    ELSE [communities |-> comms, users |-> tbl]

\* mutant of login_for_access_token_result: the role is the requested user_type
login_for_access_token_result_requested_role(email, password, user_type) ==
    LET uid == get_user_by_email(users, email) IN
    IF uid = 0 \/ ~verify_password(password, users[uid].hashed_password)
    THEN Response("token", 401, "Incorrect email or password")
    ELSE [Response("token", 200, user_type) EXCEPT
            !.token = {create_access_token(
                [sub |-> users[uid].email, role |-> user_type], clock)}]

\* POST /token
login_for_access_token_result(email, password, user_type) ==
    LET uid == get_user_by_email(users, email) IN
    IF uid = 0 \/ ~verify_password(password, users[uid].hashed_password)
    THEN Response("token", 401, "Incorrect email or password")
    ELSE IF user_type = "admin" /\ users[uid].role # "admin"
    THEN Response("token", 403, "Access denied. Not an admin.")
    ELSE [Response("token", 200, users[uid].role) EXCEPT
            !.token = {create_access_token(
                [sub |-> users[uid].email, role |-> users[uid].role], clock)}]

\* mutant of register_user_result: the reserved email is compared without lower()
register_user_result_case_sensitive(email, password) ==
    IF email = ADMIN_EMAIL
    THEN [admit |-> FALSE, resp |-> Response("register", 200, "This email is reserved.")]
    ELSE IF get_user_by_email(users, email) # 0
    THEN [admit |-> FALSE, resp |-> Response("register", 200, "Email already registered")]
    ELSE [admit |-> TRUE, resp |-> resp]

\* POST /register, lines 143-149: the reserved-email check and the lookup;
\* admit = the handler goes on to create_user
register_user_result(email, password) ==
    IF Lower(email) = Lower(ADMIN_EMAIL)
    THEN [admit |-> FALSE, resp |-> Response("register", 200, "This email is reserved.")]
    ELSE IF get_user_by_email(users, email) # 0
    THEN [admit |-> FALSE, resp |-> Response("register", 200, "Email already registered")]
    ELSE [admit |-> TRUE, resp |-> resp]

\* create_user: INSERT INTO users, subject to UNIQUE(email) and the community
\* foreign key; a violation surfaces as a 500
create_user_result(req) ==
    IF get_user_by_email(users, req.email) # 0 \/ 1 \notin communities
    THEN [users |-> users, resp |-> Response("register", 500, "IntegrityError")]
    ELSE [users |-> Append(users,
                [email |-> req.email,
                 hashed_password |-> get_password_hash(req.password),
                 role |-> "user", community_id |-> 1]),
          resp |-> Response("register", 303, "/login")]

\* POST /api/reports
create_report_result(token, filename, body) ==
    LET uid == get_current_user(token, users, clock)
        name == safe_filename(clock, filename) IN
    IF uid = 0
    THEN [reports |-> reports, uploads |-> uploads,
          resp |-> credentials_exception("create_report")]
    ELSE [reports |-> Append(reports,
                [caption |-> "c", latitude |-> 0, longitude |-> 0, category |-> "waste",
                 is_emergency |-> FALSE, status |-> "pending", timestamp |-> clock,
                 image_url |-> <<"uploads/">> \o name,
                 owner_id |-> uid, community_id |-> users[uid].community_id]),
          uploads |-> [p \in DOMAIN uploads \cup {name} |->
                          IF p = name THEN body ELSE uploads[p]],
          resp |-> [Response("create_report", 200, "") EXCEPT !.list = <<Len(reports) + 1>>]]

\* mutant of get_reports_result: the role is taken from the token's claim
get_reports_result_role_claim(token) ==
    LET uid == get_current_user(token, users, clock) IN
    IF uid = 0
    THEN {credentials_exception("get_reports")}
    ELSE {[Response("get_reports", 200, "") EXCEPT !.list = rows] :
             rows \in OrderByTimestampDesc(reports,
                         IF token.role = "admin" THEN AllReports(reports)
                         ELSE ReportsOwnedBy(reports, uid))}

\* GET /api/reports: the responses the handler may give
get_reports_result(token) ==
    LET uid == get_current_user(token, users, clock) IN
    IF uid = 0
    THEN {credentials_exception("get_reports")}
    ELSE {[Response("get_reports", 200, "") EXCEPT !.list = rows] :
             rows \in OrderByTimestampDesc(reports,
                         IF users[uid].role = "admin" THEN AllReports(reports)
                         ELSE ReportsOwnedBy(reports, uid))}

\* mutant of update_report_status_result: the role is taken from the token's claim
update_report_status_result_role_claim(report_id, new_status, token) ==
    LET uid == get_current_user(token, users, clock) IN
    IF uid = 0
    THEN [reports |-> reports, resp |-> credentials_exception("update_report_status")]
    ELSE IF token.role # "admin"
    THEN [reports |-> reports,
          resp |-> Response("update_report_status", 403, "Only admins can update status.")]
    ELSE IF report_id \notin DOMAIN reports
    THEN [reports |-> reports,
          resp |-> Response("update_report_status", 404, "Report not found.")]
    ELSE [reports |-> [reports EXCEPT ![report_id].status = new_status],
          resp |-> Response("update_report_status", 200, new_status)]

\* mutant of update_report_status_result: the status is written before the role
\* is looked at
update_report_status_result_write_first(report_id, new_status, token) ==
    LET uid == get_current_user(token, users, clock)
        written == [r \in DOMAIN reports |->
                       IF r = report_id
                       THEN [reports[r] EXCEPT !.status = new_status]
                       ELSE reports[r]] IN
    IF uid = 0
    THEN [reports |-> reports, resp |-> credentials_exception("update_report_status")]
    ELSE IF users[uid].role # "admin"
    THEN [reports |-> written,
          resp |-> Response("update_report_status", 403, "Only admins can update status.")]
    ELSE IF report_id \notin DOMAIN reports
    THEN [reports |-> reports,
          resp |-> Response("update_report_status", 404, "Report not found.")]
    ELSE [reports |-> written,
          resp |-> Response("update_report_status", 200, new_status)]

\* mutant of update_report_status_result: a missing report is not reported
update_report_status_result_no_lookup(report_id, new_status, token) ==
    LET uid == get_current_user(token, users, clock) IN
    IF uid = 0
    THEN [reports |-> reports, resp |-> credentials_exception("update_report_status")]
    ELSE IF users[uid].role # "admin"
    THEN [reports |-> reports,
          resp |-> Response("update_report_status", 403, "Only admins can update status.")]
    ELSE [reports |-> [r \in DOMAIN reports |->
                          IF r = report_id
                          THEN [reports[r] EXCEPT !.status = new_status]
                          ELSE reports[r]],
          resp |-> Response("update_report_status", 200, new_status)]

\* mutant of update_report_status_result: the update also restamps the report
update_report_status_result_restamped(report_id, new_status, token) ==
    LET uid == get_current_user(token, users, clock) IN
    IF uid = 0
    THEN [reports |-> reports, resp |-> credentials_exception("update_report_status")]
    ELSE IF users[uid].role # "admin"
    THEN [reports |-> reports,
          resp |-> Response("update_report_status", 403, "Only admins can update status.")]
    ELSE IF report_id \notin DOMAIN reports
    THEN [reports |-> reports,
          resp |-> Response("update_report_status", 404, "Report not found.")]
    ELSE [reports |-> [reports EXCEPT ![report_id].status = new_status,
                                      ![report_id].timestamp = clock],
          resp |-> Response("update_report_status", 200, new_status)]

\* POST /api/reports/{report_id}/status
update_report_status_result(report_id, new_status, token) ==
    LET uid == get_current_user(token, users, clock) IN
    IF uid = 0
    THEN [reports |-> reports, resp |-> credentials_exception("update_report_status")]
    ELSE IF users[uid].role # "admin"
    THEN [reports |-> reports,
          resp |-> Response("update_report_status", 403, "Only admins can update status.")]
    ELSE IF report_id \notin DOMAIN reports
    THEN [reports |-> reports,
          resp |-> Response("update_report_status", 404, "Report not found.")]
    ELSE [reports |-> [reports EXCEPT ![report_id].status = new_status],
          resp |-> Response("update_report_status", 200, new_status)]

\* mutant of submit_feedback_result: the owner comparison is dropped
submit_feedback_result_any_owner(report_id, rating, token) ==
    LET uid == get_current_user(token, users, clock) IN
    IF uid = 0
    THEN [admit |-> FALSE, owner_id |-> 0, resp |-> credentials_exception("submit_feedback")]
    ELSE IF report_id \notin DOMAIN reports
    THEN [admit |-> FALSE, owner_id |-> uid,
          resp |-> Response("submit_feedback", 403,
                            "You can only give feedback on your own reports.")]
    ELSE IF reports[report_id].status # "resolved"
    THEN [admit |-> FALSE, owner_id |-> uid,
          resp |-> Response("submit_feedback", 400,
                            "Cannot give feedback until report is resolved.")]
    ELSE IF HasFeedback(feedback, report_id)
    THEN [admit |-> FALSE, owner_id |-> uid,
          resp |-> Response("submit_feedback", 400,
                            "Feedback has already been submitted for this report.")]
    ELSE [admit |-> TRUE, owner_id |-> uid, resp |-> resp]

\* POST /api/reports/{report_id}/feedback, lines 210-220: the checks;
\* admit = the handler goes on to insert the Feedback for user owner_id
submit_feedback_result(report_id, rating, token) ==
    LET uid == get_current_user(token, users, clock) IN
    IF uid = 0
    THEN [admit |-> FALSE, owner_id |-> 0, resp |-> credentials_exception("submit_feedback")]
    ELSE IF report_id \notin DOMAIN reports \/ reports[report_id].owner_id # uid
    THEN [admit |-> FALSE, owner_id |-> uid,
          resp |-> Response("submit_feedback", 403,
                            "You can only give feedback on your own reports.")]
    ELSE IF reports[report_id].status # "resolved"
    THEN [admit |-> FALSE, owner_id |-> uid,
          resp |-> Response("submit_feedback", 400,
                            "Cannot give feedback until report is resolved.")]
    ELSE IF HasFeedback(feedback, report_id)
    THEN [admit |-> FALSE, owner_id |-> uid,
          resp |-> Response("submit_feedback", 400,
                            "Feedback has already been submitted for this report.")]
    ELSE [admit |-> TRUE, owner_id |-> uid, resp |-> resp]

\* mutant of submit_feedback_commit_result: report_id is not declared unique
submit_feedback_commit_result_not_unique(req) ==
    [feedback |-> Append(feedback,
          [rating |-> req.rating, comment |-> None,
           report_id |-> req.report_id, owner_id |-> req.owner_id]),
     resp |-> Response("submit_feedback", 200, "Feedback submitted successfully.")]

\* lines 222-224: INSERT INTO feedback, subject to UNIQUE(report_id)
submit_feedback_commit_result(req) ==
    IF HasFeedback(feedback, req.report_id)
    THEN [feedback |-> feedback, resp |-> Response("submit_feedback", 500, "IntegrityError")]
    ELSE [feedback |-> Append(feedback,
                [rating |-> req.rating, comment |-> None,
                 report_id |-> req.report_id, owner_id |-> req.owner_id]),
          resp |-> Response("submit_feedback", 200, "Feedback submitted successfully.")]

\* ---------------------------------------------------------------- actions
Tick ==
    /\ clock + ClockStep <= MaxClock
    /\ clock' = clock + ClockStep
    /\ UNCHANGED <<users, communities, reports, feedback, uploads, inflight, resp>>

\* startup event: ensure community 1 and the admin account
create_super_user ==
    LET out == create_super_user_result(users, communities) IN
    /\ users' = out.users
    /\ communities' = out.communities
    /\ UNCHANGED <<reports, feedback, uploads, clock, inflight, resp>>

login_for_access_token(email, password, user_type) ==
    /\ resp' = login_for_access_token_result(email, password, user_type)
    /\ UNCHANGED <<users, communities, reports, feedback, uploads, clock, inflight>>

register_user(email, password) ==
    LET out == register_user_result(email, password) IN
    /\ resp' = out.resp
    /\ IF out.admit
       THEN /\ Len(users) < MaxUsers
            /\ BagCardinality(inflight) < MaxInflight
            /\ inflight' = inflight (+) SetToBag({RegisterRequest(email, password)})
       ELSE UNCHANGED inflight
    /\ UNCHANGED <<users, communities, reports, feedback, uploads, clock>>

create_user(req) ==
    LET out == create_user_result(req) IN
    /\ req.op = "register"
    /\ Len(out.users) <= MaxUsers
    /\ inflight' = inflight (-) SetToBag({req})
    /\ users' = out.users
    /\ resp' = out.resp
    /\ UNCHANGED <<communities, reports, feedback, uploads, clock>>

create_report(token, filename, body) ==
    LET out == create_report_result(token, filename, body) IN
    /\ Len(out.reports) <= MaxReports
    /\ reports' = out.reports
    /\ uploads' = out.uploads
    /\ resp' = out.resp
    /\ UNCHANGED <<users, communities, feedback, clock, inflight>>

get_reports(token) ==
    /\ resp' \in get_reports_result(token)
    /\ UNCHANGED <<users, communities, reports, feedback, uploads, clock, inflight>>

update_report_status(report_id, new_status, token) ==
    LET out == update_report_status_result(report_id, new_status, token) IN
    /\ reports' = out.reports
    /\ resp' = out.resp
    /\ UNCHANGED <<users, communities, feedback, uploads, clock, inflight>>

submit_feedback(report_id, rating, token) ==
    LET out == submit_feedback_result(report_id, rating, token) IN
    /\ resp' = out.resp
    /\ IF out.admit
       THEN /\ BagCardinality(inflight) < MaxInflight
            /\ inflight' = inflight (+) SetToBag(
                   {FeedbackRequest(report_id, out.owner_id, rating)})
       ELSE UNCHANGED inflight
    /\ UNCHANGED <<users, communities, reports, feedback, uploads, clock>>

submit_feedback_commit(req) ==
    LET out == submit_feedback_commit_result(req) IN
    /\ req.op = "feedback"
    /\ inflight' = inflight (-) SetToBag({req})
    /\ feedback' = out.feedback
    /\ resp' = out.resp
    /\ UNCHANGED <<users, communities, reports, uploads, clock>>

ReportIds == 1..(MaxReports + 1)

Next ==
    \/ Tick
    \/ create_super_user
    \/ \E e \in Emails, p \in LoginPasswords, t \in UserTypes :
           login_for_access_token(e, p, t)
    \/ \E e \in Emails, p \in Passwords : register_user(e, p)
    \/ \E req \in BagToSet(inflight) : create_user(req)
    \/ \E tok \in Tokens, f \in Filenames, b \in Bodies : create_report(tok, f, b)
    \/ \E tok \in Tokens : get_reports(tok)
    \/ \E tok \in Tokens, r \in ReportIds, st \in ReportStatus :
           update_report_status(r, st, tok)
    \/ \E tok \in Tokens, r \in ReportIds, n \in Ratings : submit_feedback(r, n, tok)
    \/ \E req \in BagToSet(inflight) : submit_feedback_commit(req)

Spec == Init /\ [][Next]_vars

\* the upload study: the bootstrap, the clock and report creation alone, with
\* the wider file names and bodies
NextUploads ==
    \/ Tick
    \/ create_super_user
    \/ \E tok \in Tokens, f \in UploadFilenames, b \in UploadBodies :
           create_report(tok, f, b)

SpecUploads == Init /\ [][NextUploads]_vars

\* ================================================================== claims
\* The token is one the code accepts for the user row i: well formed, signed
\* with SECRET_KEY, not past its expiry, and its subject is that row's email.
TokenOf(tok, i) ==
    /\ tok.wellformed
    /\ tok.signed
    /\ clock <= tok.exp
    /\ tok.sub # None
    /\ users[i].email = tok.sub

\* C1: once a report's status is resolved, no request ever changes it back to
\* pending; the only status transition is pending -> resolved.
StatusMonotonic ==
    [][\A r \in DOMAIN reports :
          reports[r].status = "resolved" => reports'[r].status = "resolved"]_vars

\* C2: for every valid token whose subject is a user with role user, the
\* status update returns 403 for every report id, existing or not, and every
\* new_status, and leaves every report as it was.
NonAdminStatusForbidden ==
    \A tok \in Tokens, i \in DOMAIN users, r \in ReportIds, st \in ReportStatus :
        (TokenOf(tok, i) /\ users[i].role = "user") =>
            LET out == update_report_status_result(r, st, tok) IN
            /\ out.resp.code = 403
            /\ out.reports = reports

NonAdminStatusForbiddenWitness ==
    /\ resp.op = "update_report_status"
    /\ resp.code = 403
    /\ \E r \in DOMAIN reports : reports[r].status = "pending"

\* C3: a Feedback row is created only while the report it references has
\* status resolved.
FeedbackCreatedOnlyWhileResolved ==
    [][\A f \in DOMAIN feedback' :
          f \notin DOMAIN feedback =>
              reports[feedback'[f].report_id].status = "resolved"]_vars

\* C4: in every reachable state each report has at most one Feedback row, and
\* once a report has one, every further feedback attempt on it (a new request,
\* or a concurrent one that already passed its checks) fails and leaves the
\* feedback table as it is.
OneFeedbackPerReport ==
    /\ \A f, g \in DOMAIN feedback :
           feedback[f].report_id = feedback[g].report_id => f = g
    /\ \A r \in DOMAIN reports :
           HasFeedback(feedback, r) =>
               /\ \A tok \in Tokens, n \in Ratings :
                      LET out == submit_feedback_result(r, n, tok) IN
                      ~out.admit /\ out.resp.code \in {400, 401, 403}
               /\ \A req \in BagToSet(inflight) :
                      (req.op = "feedback" /\ req.report_id = r) =>
                          LET out == submit_feedback_commit_result(req) IN
                          out.feedback = feedback /\ out.resp.code = 500

OneFeedbackPerReportWitness ==
    /\ resp.op = "submit_feedback"
    /\ resp.code = 500
    /\ \E f \in DOMAIN feedback : reports[feedback[f].report_id].status = "resolved"

\* C5: when two registrations carry the same email, under any interleaving of
\* their lookups and inserts, the one that comes second fails with the
\* "Email already registered" form error and with no other failure.
DuplicateRegistrationGetsFormError ==
    \A req \in BagToSet(inflight) :
        (req.op = "register" /\ get_user_by_email(users, req.email) # 0) =>
            create_user_result(req).resp.detail = "Email already registered"

ReportListingScoped ==
    \A tok \in Tokens, i \in DOMAIN users :
        TokenOf(tok, i) =>
            /\ get_reports_result(tok) # {}
            /\ \A out \in get_reports_result(tok) :
                   /\ out.code = 200
                   /\ users[i].role = "user" =>
                          \A k \in DOMAIN out.list : reports[out.list[k]].owner_id = i
                   /\ users[i].role = "admin" =>
                          {out.list[k] : k \in DOMAIN out.list} = DOMAIN reports
                   /\ \A j, k \in DOMAIN out.list :
                          j < k => reports[out.list[j]].timestamp
                                       >= reports[out.list[k]].timestamp

ReportListingScopedWitness ==
    /\ resp.op = "get_reports"
    /\ resp.code = 200
    /\ Len(resp.list) = 1
    /\ Len(reports) = 2
    /\ reports[1].owner_id # reports[2].owner_id

\* The row i was created by a registration with this email and password.
Registered(i, email, password) ==
    /\ users[i].email = email
    /\ users[i].role = "user"
    /\ users[i].hashed_password = get_password_hash(password)

\* The login response carries one token, for this email, that expires 60
\* minutes after now and that get_current_user resolves to row i at every
\* time before that.
GoodLogin(out, i, email) ==
    /\ out.code = 200
    /\ \E tok \in out.token :
           /\ out.token = {tok}
           /\ tok.sub = email
           /\ tok.exp = clock + 60
           /\ \A t \in clock..(tok.exp - 1) : get_current_user(tok, users, t) = i

FeedbackOwnerIsReportOwner ==
    /\ \A f \in DOMAIN feedback :
           feedback[f].owner_id = reports[feedback[f].report_id].owner_id
    /\ \A req \in BagToSet(inflight) :
           req.op = "feedback" => req.owner_id = reports[req.report_id].owner_id
    /\ \A tok \in Tokens, i \in DOMAIN users, r \in DOMAIN reports, n \in Ratings :
           (TokenOf(tok, i) /\ reports[r].owner_id # i) =>
               LET out == submit_feedback_result(r, n, tok) IN
               ~out.admit /\ out.resp.code = 403

FeedbackOwnerIsReportOwnerWitness ==
    /\ resp.op = "submit_feedback"
    /\ resp.code = 403
    /\ Len(feedback) > 0
    /\ \E r \in DOMAIN reports : reports[r].status = "resolved" /\ ~HasFeedback(feedback, r)

\* When create_access_token made the token
IssuedAt(tok) == tok.exp - ACCESS_TOKEN_EXPIRE_MINUTES

\* The token is one C10 lists: malformed, not signed with the process secret,
\* without a subject, naming no user row, or issued (since the service
\* started) 60 minutes ago or more.
RejectedToken(tok) ==
    \/ ~tok.wellformed
    \/ ~tok.signed
    \/ tok.sub = None
    \/ get_user_by_email(users, tok.sub) = 0
    \/ IssuedAt(tok) >= 0 /\ clock - IssuedAt(tok) >= 60

\* C10: every authenticated handler answers 401 and changes nothing when the
\* token is expired (60 minutes or more after issuance), wrongly signed,
\* malformed, without a subject, or names a subject with no user row.
RejectedTokenGets401 ==
    \A tok \in Tokens :
        RejectedToken(tok) =>
            /\ \A f \in Filenames, b \in Bodies :
                   LET out == create_report_result(tok, f, b) IN
                   out.resp.code = 401 /\ out.reports = reports /\ out.uploads = uploads
            /\ \A out \in get_reports_result(tok) : out.code = 401
            /\ \A r \in ReportIds, st \in ReportStatus :
                   LET out == update_report_status_result(r, st, tok) IN
                   out.resp.code = 401 /\ out.reports = reports
            /\ \A r \in ReportIds, n \in Ratings :
                   LET out == submit_feedback_result(r, n, tok) IN
                   out.resp.code = 401 /\ ~out.admit

\* The listing the handler would give if it took the role from the token's claim
ListingByRoleClaim(tok, i) ==
    {[Response("get_reports", 200, "") EXCEPT !.list = rows] :
        rows \in OrderByTimestampDesc(reports,
                    IF tok.role = "admin" THEN AllReports(reports)
                    ELSE ReportsOwnedBy(reports, i))}

\* C11 as stated: at some call site (the listing, the status update) the
\* authorization decision follows the role claim of the token and not the role
\* of the stored user row, so a token whose claim differs from the stored role
\* is treated by its claim.
RoleClaimDecidesSomewhere ==
    \A tok \in Tokens, i \in DOMAIN users :
        (TokenOf(tok, i) /\ tok.role # users[i].role) =>
            \/ get_reports_result(tok) = ListingByRoleClaim(tok, i)
            \/ \A r \in ReportIds, st \in ReportStatus :
                   (update_report_status_result(r, st, tok).resp.code = 403)
                       <=> (tok.role # "admin")

\* C11, amended: at every call site the authorization decision is taken from
\* the role of the user row loaded from the store; two validly signed tokens
\* with the same subject and different role claims get the same outcome from
\* every authenticated handler.
RoleTakenFromStore ==
    \A tok \in Tokens, i \in DOMAIN users :
        TokenOf(tok, i) =>
            /\ \A r \in ReportIds, st \in ReportStatus :
                   (update_report_status_result(r, st, tok).resp.code = 403)
                       <=> (users[i].role # "admin")
            /\ \A out \in get_reports_result(tok) :
                   {out.list[k] : k \in DOMAIN out.list} =
                       IF users[i].role = "admin" THEN DOMAIN reports
                       ELSE {r \in DOMAIN reports : reports[r].owner_id = i}
            /\ \A other \in Tokens :
                   TokenOf(other, i) =>
                       /\ get_reports_result(other) = get_reports_result(tok)
                       /\ \A r \in ReportIds, st \in ReportStatus :
                              update_report_status_result(r, st, other)
                                  = update_report_status_result(r, st, tok)
                       /\ \A r \in ReportIds, n \in Ratings :
                              submit_feedback_result(r, n, other)
                                  = submit_feedback_result(r, n, tok)
                       /\ \A f \in Filenames, b \in Bodies :
                              create_report_result(other, f, b)
                                  = create_report_result(tok, f, b)

\* a user-role subject has listed its reports and got none of the stored ones
RoleTakenFromStoreWitness ==
    /\ resp.op = "get_reports"
    /\ resp.code = 200
    /\ resp.list = <<>>
    /\ Len(reports) > 0
    /\ \E i \in DOMAIN users : users[i].role = "user"

\* C12: reports are only ever added, never removed; every field of a stored
\* report other than status keeps the value it was created with; a report that
\* is added has status pending, is owned by the user the request's token
\* authenticates and carries that user's community.
ReportsAppendOnly ==
    /\ [](\A tok \in Tokens, f \in Filenames, b \in Bodies :
             LET out == create_report_result(tok, f, b)
                 uid == get_current_user(tok, users, clock) IN
             IF \E i \in DOMAIN users : TokenOf(tok, i)
             THEN /\ TokenOf(tok, uid)
                  /\ Len(out.reports) = Len(reports) + 1
                  /\ out.reports[Len(out.reports)].owner_id = uid
                  /\ out.reports[Len(out.reports)].community_id = users[uid].community_id
                  /\ out.reports[Len(out.reports)].status = "pending"
             ELSE out.reports = reports)
    /\ [][/\ Len(reports') >= Len(reports)
          /\ \A r \in DOMAIN reports :
                 [reports'[r] EXCEPT !.status = reports[r].status] = reports[r]
          /\ \A r \in DOMAIN reports' \ DOMAIN reports :
                 /\ reports'[r].status = "pending"
                 /\ reports'[r].owner_id \in DOMAIN users
                 /\ reports'[r].community_id = users[reports'[r].owner_id].community_id
                 /\ \E tok \in Tokens : TokenOf(tok, reports'[r].owner_id)]_vars

\* the status of a report created earlier has been set to resolved, and a second
\* report has been added since
ReportsAppendOnlyWitness ==
    /\ Len(reports) = 2
    /\ reports[1].status = "resolved"
    /\ reports[1].timestamp < clock
    /\ reports[2].status = "pending"
    /\ reports[2].owner_id # reports[1].owner_id

\* C13: the startup bootstrap is idempotent: from every reachable state, after
\* it has run community 1 exists and exactly one user has the admin email, with
\* role admin; running it again changes nothing, and once it changes nothing it
\* keeps changing nothing whatever API requests are served in between.
BootstrapIdempotent ==
    /\ [](LET once == create_super_user_result(users, communities)
              twice == create_super_user_result(once.users, once.communities) IN
          /\ 1 \in once.communities
          /\ Cardinality({i \in DOMAIN once.users :
                             once.users[i].email = ADMIN_EMAIL}) = 1
          /\ \A i \in DOMAIN once.users :
                 once.users[i].email = ADMIN_EMAIL => once.users[i].role = "admin"
          /\ twice = once)
    /\ [][create_super_user_result(users, communities)
              = [communities |-> communities, users |-> users]
          => create_super_user_result(users', communities')
              = [communities |-> communities', users |-> users']]_vars

\* the bootstrap has run, and since then a user has registered, filed a report
\* and given feedback on it
BootstrapIdempotentWitness ==
    /\ create_super_user_result(users, communities)
           = [communities |-> communities, users |-> users]
    /\ Len(users) = 2
    /\ Len(reports) > 0
    /\ Len(feedback) > 0

\* C14 as stated: every operation that addresses a report id with no stored
\* report (the status update by an admin, the feedback submission by any
\* authenticated user) fails with 404 and changes no stored state.
UnknownReportGets404 ==
    \A tok \in Tokens, i \in DOMAIN users, r \in ReportIds \ DOMAIN reports :
        TokenOf(tok, i) =>
            /\ users[i].role = "admin" =>
                   \A st \in ReportStatus :
                       LET out == update_report_status_result(r, st, tok) IN
                       out.resp.code = 404 /\ out.reports = reports
            /\ \A n \in Ratings :
                   LET out == submit_feedback_result(r, n, tok) IN
                   out.resp.code = 404 /\ ~out.admit

\* C14, amended: on a report id with no stored report the status update by an
\* admin fails with 404 and the feedback submission by any authenticated user
\* fails with 403; neither changes stored state.
UnknownReportRefused ==
    \A tok \in Tokens, i \in DOMAIN users, r \in ReportIds \ DOMAIN reports :
        TokenOf(tok, i) =>
            /\ users[i].role = "admin" =>
                   \A st \in ReportStatus :
                       LET out == update_report_status_result(r, st, tok) IN
                       out.resp.code = 404 /\ out.reports = reports
            /\ \A n \in Ratings :
                   LET out == submit_feedback_result(r, n, tok) IN
                   out.resp.code = 403 /\ ~out.admit

\* an admin has addressed a report id that is not stored, next to stored ones
UnknownReportRefusedWitness ==
    /\ resp.op = "update_report_status"
    /\ resp.code = 404
    /\ Len(reports) > 0

NoPrivilegeEscalation ==
    /\ [](/\ \A i \in DOMAIN users :
                 users[i].role = "admin" <=> users[i].email = ADMIN_EMAIL
          /\ Cardinality({i \in DOMAIN users : users[i].role = "admin"}) <= 1
          /\ \A e \in Emails, p \in Passwords :
                 LET out == create_user_result(RegisterRequest(e, p)) IN
                 out.users # users =>
                     /\ Len(out.users) = Len(users) + 1
                     /\ out.users[Len(out.users)].role = "user"
                     /\ \A i \in DOMAIN users : out.users[i] = users[i]
          /\ \A e \in Emails, p \in LoginPasswords, t \in UserTypes :
                 LET out == login_for_access_token_result(e, p, t)
                     uid == get_user_by_email(users, e) IN
                 /\ out.code = 200 =>
                        /\ uid # 0
                        /\ out.detail = users[uid].role
                        /\ out.token # {}
                        /\ \A tk \in out.token :
                               tk.sub = users[uid].email /\ tk.role = users[uid].role
                 /\ out.code # 200 => out.token = {}
                 /\ (/\ t = "admin"
                     /\ uid # 0
                     /\ verify_password(p, users[uid].hashed_password)
                     /\ users[uid].role # "admin") => out.code = 403)
    /\ [][\A i \in DOMAIN users :
              i \in DOMAIN users' /\ users'[i].role = users[i].role]_vars

\* a registered user has asked for an admin login and has been refused
NoPrivilegeEscalationWitness ==
    /\ resp.op = "token"
    /\ resp.code = 403
    /\ resp.token = {}
    /\ \E i \in DOMAIN users : users[i].role = "user"
    /\ \E i \in DOMAIN users : users[i].role = "admin"

\* The response is one of the failures: 401, 403, 404, 400, or the registration
\* form rendered again with an error.
IsFailure(r) ==
    \/ r.code \in {400, 401, 403, 404}
    \/ r.op = "register" /\ r.code = 200

\* C17: every request answered with a failure (401, 403, 404, 400 or a
\* registration form error) leaves the users, communities, reports and feedback
\* tables as they were; a rejected submit_feedback or update_report_status
\* writes nothing.
FailureWritesNothing ==
    /\ [](/\ \A e \in Emails, p \in Passwords :
                 LET out == register_user_result(e, p) IN
                 ~out.admit => IsFailure(out.resp)
          /\ \A tok \in Tokens, f \in Filenames, b \in Bodies :
                 LET out == create_report_result(tok, f, b) IN
                 IsFailure(out.resp) => out.reports = reports /\ out.uploads = uploads
          /\ \A tok \in Tokens, r \in ReportIds, st \in ReportStatus :
                 LET out == update_report_status_result(r, st, tok) IN
                 IsFailure(out.resp) => out.reports = reports
          /\ \A tok \in Tokens, r \in ReportIds, n \in Ratings :
                 LET out == submit_feedback_result(r, n, tok) IN
                 ~out.admit => IsFailure(out.resp)
          /\ \A req \in BagToSet(inflight) :
                 /\ req.op = "register" =>
                        LET out == create_user_result(req) IN
                        IsFailure(out.resp) => out.users = users
                 /\ req.op = "feedback" =>
                        LET out == submit_feedback_commit_result(req) IN
                        IsFailure(out.resp) => out.feedback = feedback)
    /\ [][(resp' # resp /\ IsFailure(resp')) => UNCHANGED <<tables, inflight>>]_vars

\* a second feedback on a report that already has one has been rejected
FailureWritesNothingWitness ==
    /\ resp.op = "submit_feedback"
    /\ resp.code = 400
    /\ Len(feedback) > 0
    /\ inflight = EmptyBag

====
